---- MODULE Spec2Model ----
(***************************************************************************)
(* DailyTransaction: one daily batch run.                                  *)
(*   main: LoadAccounts -> LoadTransactions -> ValidateTransactions ->     *)
(*         ProcessTransactions -> DetectAnomalies -> GenerateAccountSummary*)
(*         / WriteAccounts.                                                *)
(* Amounts and balances are whole currency units (the finite float64      *)
(* values of the program restricted to integers); timestamps are minutes,  *)
(* 0 being the zero time.Time.  A Go map is a reference: the maps live in  *)
(* `heap`, and a map variable of the program holds a key of `heap`.        *)
(***************************************************************************)
EXTENDS Integers, Sequences, FiniteSets, TLC

\* ------------------------------------------------------------------ bounds
\* Rows of the day's transactions file.
MaxTx == 2
\* Minutes between the timestamps of two consecutive rows of the file.
RowGap == 25

\* ------------------------------------------------------- program constants
OverdraftLimit == -1000
MaxDailyWithdrawalLimit == 5000
LargeTransactionThreshold == 10000
RapidWithdrawalThreshold == 3
RapidWithdrawalTimeWindowMins == 60

\* --------------------------------------------------------------- messages
MsgDailyLimit == "Exceeds daily withdrawal limit of $5000.00"
MsgOverdraftLimit == "Would exceed overdraft limit of $1000.00"
MsgDebitOverdraft == "Account in overdraft"
MsgTransferOverdraft == "Source account in overdraft"
MsgAlreadyRejected == "Already rejected in input file"
MsgOnlyPending == "Only pending transactions can be processed"
MsgAmount == "Transaction amount must be positive"
MsgNoAccount == "Account does not exist"
MsgNoDestination == "Transfer is missing destination account"
MsgNoDestAccount == "Destination account does not exist"
MsgSameAccount == "Source and destination accounts cannot be the same"

\* ------------------------------------------------------------- data model
\* models.Account
Account(id, balance, overdraftCount) ==
    [ID |-> id, Balance |-> balance, DailyDebits |-> 0, DailyCredits |-> 0,
     LastTransactionTime |-> 0, OverdraftCount |-> overdraftCount]

\* The zero value of models.Account: what a Go map lookup of a missing key gives.
ZeroAccount == Account("", 0, 0)

\* accounts[id] read from a Go map
Lookup(m, id) == IF id \in DOMAIN m THEN m[id] ELSE ZeroAccount

\* accounts[id] = a written to a Go map
Store(m, id, a) == [k \in (DOMAIN m) \cup {id} |-> IF k = id THEN a ELSE m[k]]

\* The accounts the accounts file names, and the rows it may hold for each:
\* a balance and an overdraft count (an account below the floor has been overdrawn).
AccountIDs == {"A1", "A2"}
AccountRows == {<<-2000, 1>>, <<100, 0>>, <<12000, 0>>}

\* LoadAccounts: every data row becomes an Account with zeroed daily counters.
LoadAccounts(rows) ==
    [id \in DOMAIN rows |-> Account(id, rows[id][1], rows[id][2])]

\* ----------------------------------------------------- the transactions file
\* A CSV row: account id, amount, type, status, destination column.
Row(acct, amount, type, status, dest) ==
    [AccountID |-> acct, Amount |-> amount, Type |-> type, Status |-> status,
     Dest |-> dest]

Amounts == {200, 3000, 10000}

\* Rows that pass validation.
GoodRows ==
    {Row(a, x, "credit", "pending", "") : a \in AccountIDs, x \in {200, 10000}}
    \cup {Row(a, x, "debit", "pending", "") : a \in AccountIDs, x \in Amounts}
    \cup {Row("A1", x, "transfer", "pending", "A2") : x \in Amounts}
    \cup {Row("A2", x, "transfer", "pending", "A1") : x \in Amounts}

\* Rows that parse and fail validation, one per reason.
BadRows ==
    {Row("A1", 0, "credit", "pending", ""),
     Row("X9", 200, "debit", "pending", ""),
     Row("X9", 200, "transfer", "pending", "A1"),
     Row("A1", 200, "transfer", "pending", "X9"),
     Row("A1", 200, "transfer", "pending", ""),
     Row("A1", 200, "transfer", "pending", "A1"),
     Row("A1", 200, "credit", "completed", ""),
     Row("A2", 200, "debit", "rejected", "")}

\* A row parseTransaction refuses (unknown transaction type).
MalformedRows == {Row("A1", 200, "withdraw", "pending", "")}

RowPool == GoodRows \cup BadRows \cup MalformedRows

\* parseTransaction's checks of a record: the type and the status are known words.
ParseOk(row) ==
    /\ row.Type \in {"credit", "debit", "transfer"}
    /\ row.Status \in {"pending", "completed", "rejected"}

\* parseTransaction: the Transaction of the k-th data row.  The id is the row's
\* number and the timestamp k * RowGap minutes; the destination is read for
\* transfers only.
parseTransaction(row, k) ==
    [ID |-> k, AccountID |-> row.AccountID,
     DestinationAccountID |-> IF row.Type = "transfer" THEN row.Dest ELSE "",
     Timestamp |-> k * RowGap, Amount |-> row.Amount, Type |-> row.Type,
     Status |-> row.Status, ValidationMessage |-> "", ProcessingMessage |-> ""]

\* ---------------------------------------------------------------- validation
\* "Skip already rejected transactions" and "Only process pending
\* transactions": the message that sends a transaction to the invalid ones
\* before any other check ("" when its status is pending).
\* Variant: only the already rejected transactions are skipped.
StatusReasonRejectedOnly(transaction) ==
    IF transaction.Status = "rejected" THEN MsgAlreadyRejected ELSE ""

StatusReason(transaction) ==
    IF transaction.Status = "rejected" THEN MsgAlreadyRejected
    ELSE IF transaction.Status # "pending" THEN MsgOnlyPending
    ELSE ""

\* "Validate account exists": the reason after this check, given the reason so far.
\* Variant: the source account is not looked up.
SourceReasonUnchecked(transaction, accts, reason) == reason

SourceReason(transaction, accts, reason) ==
    IF transaction.AccountID \notin DOMAIN accts THEN MsgNoAccount ELSE reason

\* "For transfers, validate destination account exists": the reason after the
\* destination checks, given the reason so far.
\* Variant: a transfer to its own source is let through.
DestinationReasonNoSelfCheck(transaction, accts, reason) ==
    IF transaction.Type # "transfer" THEN reason
    ELSE IF transaction.DestinationAccountID = "" THEN MsgNoDestination
    ELSE IF transaction.DestinationAccountID \notin DOMAIN accts THEN MsgNoDestAccount
    ELSE reason

DestinationReason(transaction, accts, reason) ==
    IF transaction.Type # "transfer" THEN reason
    ELSE IF transaction.DestinationAccountID = "" THEN MsgNoDestination
    ELSE IF transaction.DestinationAccountID \notin DOMAIN accts THEN MsgNoDestAccount
    ELSE IF transaction.DestinationAccountID = transaction.AccountID THEN MsgSameAccount
    ELSE reason

\* The reason ValidateTransactions gives for one transaction ("" when valid):
\* a later check overwrites the reason of an earlier one.
ValidationReason(transaction, accts) ==
    IF StatusReason(transaction) # "" THEN StatusReason(transaction)
    ELSE DestinationReason(transaction, accts,
            SourceReason(transaction, accts,
                IF transaction.Amount <= 0 THEN MsgAmount ELSE ""))

RECURSIVE ValidateLoop(_, _, _, _)
ValidateLoop(txs, accts, valid, invalid) ==
    IF txs = <<>> THEN [valid |-> valid, invalid |-> invalid]
    ELSE LET transaction == Head(txs)
             reason == ValidationReason(transaction, accts)
         IN  IF reason = ""
             THEN ValidateLoop(Tail(txs), accts, Append(valid, transaction), invalid)
             ELSE ValidateLoop(Tail(txs), accts, valid,
                               Append(invalid,
                                      [transaction EXCEPT !.ValidationMessage = reason]))

ValidateTransactions(txs, accts) == ValidateLoop(txs, accts, <<>>, <<>>)

\* ------------------------------------------------------------ ledger engine
processCredit(transaction, account, accts) ==
    LET acc == [account EXCEPT !.Balance = @ + transaction.Amount,
                               !.DailyCredits = @ + transaction.Amount]
    IN  [tx |-> [transaction EXCEPT !.Status = "completed"],
         accounts |-> Store(accts, transaction.AccountID, acc)]

\* "Check if withdrawal would exceed daily limit"
\* Variant: the amount alone is held against the limit.
ExceedsDailyLimitSingle(account, transaction) ==
    transaction.Amount > MaxDailyWithdrawalLimit

ExceedsDailyLimit(account, transaction) ==
    account.DailyDebits + transaction.Amount > MaxDailyWithdrawalLimit

\* "Check if withdrawal would exceed overdraft limit"
DebitBreachesFloor(account, transaction) ==
    account.Balance - transaction.Amount < OverdraftLimit

\* Variant: the overdraft check comes before the daily limit check.
processDebitFloorFirst(transaction, account, accts) ==
    LET newBalance == account.Balance - transaction.Amount
        acc == [account EXCEPT
                  !.Balance = newBalance,
                  !.DailyDebits = @ + transaction.Amount,
                  !.OverdraftCount = IF newBalance < 0 THEN @ + 1 ELSE @]
    IN  IF DebitBreachesFloor(account, transaction)
        THEN [tx |-> [transaction EXCEPT !.Status = "rejected",
                                         !.ProcessingMessage = MsgOverdraftLimit],
              accounts |-> accts]
        ELSE IF ExceedsDailyLimit(account, transaction)
        THEN [tx |-> [transaction EXCEPT !.Status = "rejected",
                                         !.ProcessingMessage = MsgDailyLimit],
              accounts |-> accts]
        ELSE [tx |-> [transaction EXCEPT
                        !.Status = "completed",
                        !.ProcessingMessage =
                            IF newBalance < 0 THEN MsgDebitOverdraft ELSE @],
              accounts |-> Store(accts, transaction.AccountID, acc)]

processDebit(transaction, account, accts) ==
    LET newBalance == account.Balance - transaction.Amount
        acc == [account EXCEPT
                  !.Balance = newBalance,
                  !.DailyDebits = @ + transaction.Amount,
                  !.OverdraftCount = IF newBalance < 0 THEN @ + 1 ELSE @]
    IN  IF ExceedsDailyLimit(account, transaction)
        THEN [tx |-> [transaction EXCEPT !.Status = "rejected",
                                         !.ProcessingMessage = MsgDailyLimit],
              accounts |-> accts]
        ELSE IF DebitBreachesFloor(account, transaction)
        THEN [tx |-> [transaction EXCEPT !.Status = "rejected",
                                         !.ProcessingMessage = MsgOverdraftLimit],
              accounts |-> accts]
        ELSE [tx |-> [transaction EXCEPT
                        !.Status = "completed",
                        !.ProcessingMessage =
                            IF newBalance < 0 THEN MsgDebitOverdraft ELSE @],
              accounts |-> Store(accts, transaction.AccountID, acc)]

\* "Check if transfer would exceed overdraft limit"
\* Variant: the balance before the transfer is held against the floor.
TransferBreachesFloorBefore(sourceAccount, transaction) ==
    sourceAccount.Balance < OverdraftLimit

TransferBreachesFloor(sourceAccount, transaction) ==
    sourceAccount.Balance - transaction.Amount < OverdraftLimit

\* "Apply transfer", the source side, with the overdraft check after it.
\* Variant: a transfer is not added to the daily debits.
TransferSourceNoDailyDebits(sourceAccount, transaction) ==
    LET newBalance == sourceAccount.Balance - transaction.Amount
    IN  [sourceAccount EXCEPT
           !.Balance = newBalance,
           !.OverdraftCount = IF newBalance < 0 THEN @ + 1 ELSE @]

\* Variant: a transfer into overdraft does not count as an overdraft.
TransferSourceNoOverdraftCount(sourceAccount, transaction) ==
    [sourceAccount EXCEPT
       !.Balance = @ - transaction.Amount,
       !.DailyDebits = @ + transaction.Amount]

TransferSource(sourceAccount, transaction) ==
    LET newBalance == sourceAccount.Balance - transaction.Amount
    IN  [sourceAccount EXCEPT
           !.Balance = newBalance,
           !.DailyDebits = @ + transaction.Amount,
           !.OverdraftCount = IF newBalance < 0 THEN @ + 1 ELSE @]

\* "Apply transfer", the destination side.
\* Variant: the destination's balance is not raised.
TransferDestNoBalance(destAccount, transaction) ==
    [destAccount EXCEPT !.DailyCredits = @ + transaction.Amount]

TransferDest(destAccount, transaction) ==
    [destAccount EXCEPT !.Balance = @ + transaction.Amount,
                        !.DailyCredits = @ + transaction.Amount]

processTransfer(transaction, accts) ==
    LET sourceAccount == Lookup(accts, transaction.AccountID)
        destAccount == Lookup(accts, transaction.DestinationAccountID)
        newBalance == sourceAccount.Balance - transaction.Amount
    IN  IF TransferBreachesFloor(sourceAccount, transaction)
        THEN [tx |-> [transaction EXCEPT !.Status = "rejected",
                                         !.ProcessingMessage = MsgOverdraftLimit],
              accounts |-> accts]
        ELSE [tx |-> [transaction EXCEPT
                        !.Status = "completed",
                        !.ProcessingMessage =
                            IF newBalance < 0 THEN MsgTransferOverdraft ELSE @],
              accounts |->
                  Store(Store(accts, transaction.AccountID,
                              TransferSource(sourceAccount, transaction)),
                        transaction.DestinationAccountID,
                        TransferDest(destAccount, transaction))]

\* The switch of ProcessTransactions' loop body: a type that is none of the
\* three leaves the transaction and the accounts as they are.
Dispatch(transaction, accts) ==
    LET account == Lookup(accts, transaction.AccountID)
    IN  CASE transaction.Type = "credit" -> processCredit(transaction, account, accts)
          [] transaction.Type = "debit" -> processDebit(transaction, account, accts)
          [] transaction.Type = "transfer" -> processTransfer(transaction, accts)
          [] OTHER -> [tx |-> transaction, accounts |-> accts]

\* "Update last transaction time": only after a completed transaction.
\* Variant: the timestamp is updated whatever the status.
TouchLastTransactionTimeAlways(stamped, transaction, accts) ==
    Store(accts, transaction.AccountID,
          [Lookup(accts, transaction.AccountID) EXCEPT
             !.LastTransactionTime = transaction.Timestamp])

\* Variant: a completed transfer updates the destination's timestamp too.
TouchLastTransactionTimeBoth(stamped, transaction, accts) ==
    IF stamped.Status = "completed"
    THEN LET touched == Store(accts, transaction.AccountID,
                              [Lookup(accts, transaction.AccountID) EXCEPT
                                 !.LastTransactionTime = transaction.Timestamp])
         IN  IF transaction.Type = "transfer"
             THEN Store(touched, transaction.DestinationAccountID,
                        [Lookup(touched, transaction.DestinationAccountID) EXCEPT
                           !.LastTransactionTime = transaction.Timestamp])
             ELSE touched
    ELSE accts

TouchLastTransactionTime(stamped, transaction, accts) ==
    IF stamped.Status = "completed"
    THEN Store(accts, transaction.AccountID,
               [Lookup(accts, transaction.AccountID) EXCEPT
                  !.LastTransactionTime = transaction.Timestamp])
    ELSE accts

\* One iteration of ProcessTransactions' loop.
ProcessOne(transaction, accts) ==
    LET r == Dispatch(transaction, accts)
    IN  [tx |-> r.tx,
         accounts |-> TouchLastTransactionTime(r.tx, transaction, r.accounts)]

\* --------------------------------------------------------- anomaly detector
Anomaly(transaction, accountID, type, description, severity) ==
    [TransactionID |-> transaction.ID, AccountID |-> accountID,
     Timestamp |-> transaction.Timestamp, Type |-> type,
     Description |-> description, Severity |-> severity]

\* "Check for large transactions"
\* Variant: only amounts above the threshold count.
LargeTransactionAbove(transaction) ==
    IF transaction.Amount > LargeTransactionThreshold
    THEN <<Anomaly(transaction, transaction.AccountID, "large_transaction",
                   transaction.Amount, "medium")>>
    ELSE <<>>

LargeTransaction(transaction) ==
    IF transaction.Amount >= LargeTransactionThreshold
    THEN <<Anomaly(transaction, transaction.AccountID, "large_transaction",
                   transaction.Amount, "medium")>>
    ELSE <<>>

\* "Check for accounts in overdraft": the severity by the account's balance.
\* Variant: a balance on a boundary takes the deeper severity.
OverdraftSeverityInclusive(balance) ==
    IF balance * 10 <= OverdraftLimit * 8 THEN "high"
    ELSE IF balance * 2 <= OverdraftLimit THEN "medium"
    ELSE "low"

OverdraftSeverity(balance) ==
    IF balance * 10 < OverdraftLimit * 8 THEN "high"
    ELSE IF balance * 2 < OverdraftLimit THEN "medium"
    ELSE "low"

AccountOverdraft(transaction, accts) ==
    LET account == Lookup(accts, transaction.AccountID)
    IN  IF account.Balance < 0
        THEN <<Anomaly(transaction, transaction.AccountID, "account_overdraft",
                       account.Balance, OverdraftSeverity(account.Balance))>>
        ELSE <<>>

\* The first loop of DetectAnomalies: the anomalies it appends, in order.
RECURSIVE ScanAnomalies(_, _)
ScanAnomalies(txs, accts) ==
    IF txs = <<>> THEN <<>>
    ELSE LET transaction == Head(txs)
         IN  IF transaction.Status # "completed"
             THEN ScanAnomalies(Tail(txs), accts)
             ELSE LargeTransaction(transaction)
                  \o AccountOverdraft(transaction, accts)
                  \o ScanAnomalies(Tail(txs), accts)

\* withdrawalsByAccount[accountID] after the first loop
IsWithdrawalOf(accountID, transaction) ==
    /\ transaction.Status = "completed"
    /\ transaction.Type = "debit"
    /\ transaction.AccountID = accountID

Withdrawals(txs, accountID) ==
    LET Keep(transaction) == IsWithdrawalOf(accountID, transaction)
    IN  SelectSeq(txs, Keep)

WithdrawalAccounts(txs) ==
    {txs[k].AccountID : k \in {n \in 1..Len(txs) : IsWithdrawalOf(txs[n].AccountID, txs[n])}}

RECURSIVE SumAmounts(_, _, _)
SumAmounts(withdrawals, from, to) ==
    IF from > to THEN 0
    ELSE withdrawals[from].Amount + SumAmounts(withdrawals, from + 1, to)

\* Variant: the scan goes on after a window within the time window.
RECURSIVE RapidScanEveryWindow(_, _, _)
RapidScanEveryWindow(accountID, withdrawals, n) ==
    IF n > Len(withdrawals) THEN <<>>
    ELSE LET start == n - (RapidWithdrawalThreshold - 1)
             timeWindow == withdrawals[n].Timestamp - withdrawals[start].Timestamp
         IN  (IF timeWindow <= RapidWithdrawalTimeWindowMins
              THEN <<Anomaly(withdrawals[n], accountID, "rapid_withdrawals",
                             SumAmounts(withdrawals, start, n), "high")>>
              ELSE <<>>)
             \o RapidScanEveryWindow(accountID, withdrawals, n + 1)

\* The scan of one account's withdrawals from window end n on: the first
\* window of RapidWithdrawalThreshold withdrawals within the time window.
RECURSIVE RapidScan(_, _, _)
RapidScan(accountID, withdrawals, n) ==
    IF n > Len(withdrawals) THEN <<>>
    ELSE LET start == n - (RapidWithdrawalThreshold - 1)
             timeWindow == withdrawals[n].Timestamp - withdrawals[start].Timestamp
         IN  IF timeWindow <= RapidWithdrawalTimeWindowMins
             THEN <<Anomaly(withdrawals[n], accountID, "rapid_withdrawals",
                            SumAmounts(withdrawals, start, n), "high")>>
             ELSE RapidScan(accountID, withdrawals, n + 1)

RapidWithdrawals(accountID, withdrawals) ==
    IF Len(withdrawals) >= RapidWithdrawalThreshold
    THEN RapidScan(accountID, withdrawals, RapidWithdrawalThreshold)
    ELSE <<>>

\* The orders in which a range over a Go map may visit the keys S.
MapOrders(S) ==
    {o \in [1..Cardinality(S) -> S] :
        \A a, b \in 1..Cardinality(S) : a # b => o[a] # o[b]}

RECURSIVE RapidLoop(_, _)
RapidLoop(order, txs) ==
    IF order = <<>> THEN <<>>
    ELSE RapidWithdrawals(Head(order), Withdrawals(txs, Head(order)))
         \o RapidLoop(Tail(order), txs)

\* ------------------------------------------------------------------ reports
\* The output directory before WriteAccounts: no accounts file.
NotWritten == [written |-> FALSE, rows |-> <<>>]

\* WriteAccounts: the columns of the accounts file, one row per map entry.
WriteAccounts(accts) ==
    [written |-> TRUE,
     rows |-> [id \in DOMAIN accts |->
                 [ID |-> accts[id].ID, Balance |-> accts[id].Balance,
                  OverdraftCount |-> accts[id].OverdraftCount,
                  LastTransactionTime |-> accts[id].LastTransactionTime]]]

\* GenerateAccountSummary: the summaries before any transaction is counted.
InitialSummaries(accts) ==
    [id \in DOMAIN accts |->
        [AccountID |-> id, ClosingBalance |-> accts[id].Balance,
         OpeningBalance |-> accts[id].Balance, TotalDebits |-> 0,
         TotalCredits |-> 0, TransactionCount |-> 0,
         OverdraftCount |-> accts[id].OverdraftCount]]

\* One iteration of GenerateAccountSummary's loop over the transactions.
\* Variant: a transfer is not counted for its destination.
SummaryStepSourceOnly(summaries, transaction) ==
    LET src == transaction.AccountID
        Credit(s) == [s EXCEPT !.TransactionCount = @ + 1,
                               !.OpeningBalance = @ - transaction.Amount,
                               !.TotalCredits = @ + transaction.Amount]
        Debit(s) == [s EXCEPT !.TransactionCount = @ + 1,
                              !.OpeningBalance = @ + transaction.Amount,
                              !.TotalDebits = @ + transaction.Amount]
    IN  IF transaction.Status # "completed" \/ src \notin DOMAIN summaries
        THEN summaries
        ELSE IF transaction.Type = "credit"
        THEN [summaries EXCEPT ![src] = Credit(@)]
        ELSE [summaries EXCEPT ![src] = Debit(@)]

SummaryStep(summaries, transaction) ==
    LET src == transaction.AccountID
        dst == transaction.DestinationAccountID
        Credit(s) == [s EXCEPT !.TransactionCount = @ + 1,
                               !.OpeningBalance = @ - transaction.Amount,
                               !.TotalCredits = @ + transaction.Amount]
        Debit(s) == [s EXCEPT !.TransactionCount = @ + 1,
                              !.OpeningBalance = @ + transaction.Amount,
                              !.TotalDebits = @ + transaction.Amount]
        Count(s) == [s EXCEPT !.TransactionCount = @ + 1]
    IN  IF transaction.Status # "completed" \/ src \notin DOMAIN summaries
        THEN summaries
        ELSE CASE transaction.Type = "credit" ->
                    [summaries EXCEPT ![src] = Credit(@)]
               [] transaction.Type = "debit" ->
                    [summaries EXCEPT ![src] = Debit(@)]
               [] transaction.Type = "transfer" ->
                    LET s1 == [summaries EXCEPT ![src] = Debit(@)]
                    IN  IF dst \in DOMAIN s1
                        THEN [s1 EXCEPT ![dst] = Credit(@)]
                        ELSE s1
               [] OTHER -> [summaries EXCEPT ![src] = Count(@)]

RECURSIVE SummaryLoop(_, _)
SummaryLoop(summaries, txs) ==
    IF txs = <<>> THEN summaries
    ELSE SummaryLoop(SummaryStep(summaries, Head(txs)), Tail(txs))

GenerateAccountSummary(accts, txs) == SummaryLoop(InitialSummaries(accts), txs)

\* The map ProcessTransactions works on: a new one, made at its start.
\* Variant: processedAccounts is the caller's map itself.
CallersAccountsMap == "accounts"

NewAccountsMap == "processedAccounts"

\* -------------------------------------------------------------------- state
VARIABLES
    pc,                     \* where main is
    heap,                   \* the Go maps of accounts, by reference
    file,                   \* the rows of the transactions file
    transactions,           \* LoadTransactions' result
    validTransactions,      \* ValidateTransactions' results
    invalidTransactions,
    procRef,                \* ProcessTransactions' processedAccounts (a reference)
    processedTransactions,  \* ProcessTransactions' copy of the transactions
    i,                      \* index of the loop of ProcessTransactions
    anomalies,              \* DetectAnomalies' result
    summary,                \* GenerateAccountSummary's result, by account
    accountsOut             \* the accounts file of the output directory

vars == <<pc, heap, file, transactions, validTransactions, invalidTransactions,
          procRef, processedTransactions, i, anomalies, summary, accountsOut>>

\* main's accounts, and ProcessTransactions' processedAccounts
accounts == heap["accounts"]
processedAccounts == heap[procRef]

Init ==
    /\ pc = "input"
    /\ \E rows \in [AccountIDs -> AccountRows] :
          heap = [r \in {"accounts"} |-> LoadAccounts(rows)]
    /\ file = <<>>
    /\ transactions = <<>>
    /\ validTransactions = <<>>
    /\ invalidTransactions = <<>>
    /\ procRef = "nil"
    /\ processedTransactions = <<>>
    /\ i = 0
    /\ anomalies = <<>>
    /\ summary = <<>>
    /\ accountsOut = NotWritten

\* The environment: the day's file gets one more row.
FileRow ==
    /\ pc = "input"
    /\ Len(file) < MaxTx
    /\ \E row \in RowPool : file' = Append(file, row)
    /\ UNCHANGED <<pc, heap, transactions, validTransactions, invalidTransactions,
                   procRef, processedTransactions, i, anomalies, summary, accountsOut>>

\* LoadTransactions returns an error (no data row, or a row that does not
\* parse) and main ends with log.Fatalf.
LoadTransactionsFail ==
    /\ pc = "input"
    /\ \/ Len(file) = 0
       \/ \E k \in 1..Len(file) : ~ParseOk(file[k])
    /\ pc' = "aborted"
    /\ UNCHANGED <<heap, file, transactions, validTransactions, invalidTransactions,
                   procRef, processedTransactions, i, anomalies, summary, accountsOut>>

LoadTransactions ==
    /\ pc = "input"
    /\ Len(file) > 0
    /\ \A k \in 1..Len(file) : ParseOk(file[k])
    /\ transactions' = [k \in 1..Len(file) |-> parseTransaction(file[k], k)]
    /\ pc' = "validate"
    /\ UNCHANGED <<heap, file, validTransactions, invalidTransactions,
                   procRef, processedTransactions, i, anomalies, summary, accountsOut>>

\* main step 3
Validate ==
    /\ pc = "validate"
    /\ LET r == ValidateTransactions(transactions, accounts)
       IN  /\ validTransactions' = r.valid
           /\ invalidTransactions' = r.invalid
    /\ pc' = "call"
    /\ UNCHANGED <<heap, file, transactions, procRef, processedTransactions, i,
                   anomalies, summary, accountsOut>>

\* ProcessTransactions up to its loop: the copies of the map and of the slice.
ProcessStart ==
    /\ pc = "call"
    /\ procRef' = NewAccountsMap
    /\ heap' = [r \in (DOMAIN heap) \cup {NewAccountsMap} |->
                  IF r = NewAccountsMap THEN heap["accounts"] ELSE heap[r]]
    /\ processedTransactions' = validTransactions
    /\ i' = 1
    /\ pc' = "process"
    /\ UNCHANGED <<file, transactions, validTransactions, invalidTransactions,
                   anomalies, summary, accountsOut>>

\* One iteration of the loop of ProcessTransactions.
ProcessStep ==
    /\ pc = "process"
    /\ i <= Len(processedTransactions)
    /\ LET r == ProcessOne(processedTransactions[i], processedAccounts)
       IN  /\ processedTransactions' = [processedTransactions EXCEPT ![i] = r.tx]
           /\ heap' = [heap EXCEPT ![procRef] = r.accounts]
    /\ i' = i + 1
    /\ UNCHANGED <<pc, file, transactions, validTransactions, invalidTransactions,
                   procRef, anomalies, summary, accountsOut>>

\* ProcessTransactions has returned: main step 5, DetectAnomalies.  The second
\* loop ranges over a map, in any order of its keys.
DetectAnomalies ==
    /\ pc = "process"
    /\ i > Len(processedTransactions)
    /\ \E order \in MapOrders(WithdrawalAccounts(processedTransactions)) :
          anomalies' = ScanAnomalies(processedTransactions, processedAccounts)
                       \o RapidLoop(order, processedTransactions)
    /\ pc' = "report"
    /\ UNCHANGED <<heap, file, transactions, validTransactions, invalidTransactions,
                   procRef, processedTransactions, i, summary, accountsOut>>

\* main step 6: the summaries, and the updated accounts written.
Report ==
    /\ pc = "report"
    /\ summary' = GenerateAccountSummary(processedAccounts, processedTransactions)
    /\ accountsOut' = WriteAccounts(processedAccounts)
    /\ pc' = "done"
    /\ UNCHANGED <<heap, file, transactions, validTransactions, invalidTransactions,
                   procRef, processedTransactions, i, anomalies>>

Next ==
    \/ FileRow
    \/ LoadTransactionsFail
    \/ LoadTransactions
    \/ Validate
    \/ ProcessStart
    \/ ProcessStep
    \/ DetectAnomalies
    \/ Report

Spec == Init /\ [][Next]_vars

\* ------------------------------------------- the anomaly detector on its own
\* DetectAnomalies applied to stamped transactions and final accounts drawn
\* directly, with more transactions than a day's file of MaxTx rows holds.
\* Stamped transactions a run of the ledger can return.
MaxStamped == 4

\* A stamped transaction kind: source, destination, amount, type, status.
StampedKinds ==
    {<<"A1", "", 100, "debit", "completed">>,
     <<"A2", "", 100, "debit", "completed">>,
     <<"A1", "", 10000, "debit", "rejected">>,
     <<"A1", "A2", 100, "transfer", "completed">>,
     <<"A1", "", 100, "credit", "completed">>}

\* Minutes between a stamped transaction and the one before it.
StampGaps == {20, 40}

\* The final balance of A1; A2 ends overdrawn.
FinalBalances == {-900, -800, -500, 50}

StampedTransaction(k, kind, time) ==
    [ID |-> k, AccountID |-> kind[1], DestinationAccountID |-> kind[2],
     Timestamp |-> time, Amount |-> kind[3], Type |-> kind[4], Status |-> kind[5],
     ValidationMessage |-> "",
     ProcessingMessage |-> IF kind[5] = "rejected" THEN MsgDailyLimit ELSE ""]

InitDetect ==
    /\ pc = "stamped"
    /\ \E b \in FinalBalances :
          heap = [r \in {"accounts", NewAccountsMap} |->
                    [id \in AccountIDs |->
                        Account(id, IF id = "A1" THEN b ELSE -100, 0)]]
    /\ procRef = NewAccountsMap
    /\ file = <<>>
    /\ transactions = <<>>
    /\ validTransactions = <<>>
    /\ invalidTransactions = <<>>
    /\ processedTransactions = <<>>
    /\ i = 1
    /\ anomalies = <<>>
    /\ summary = <<>>
    /\ accountsOut = NotWritten

\* The ledger's output gets one more stamped transaction.
StampedRow ==
    /\ pc = "stamped"
    /\ Len(processedTransactions) < MaxStamped
    /\ \E kind \in StampedKinds, gap \in StampGaps :
          LET n == Len(processedTransactions)
              before == IF n = 0 THEN 0 ELSE processedTransactions[n].Timestamp
          IN  processedTransactions' =
                  Append(processedTransactions,
                         StampedTransaction(n + 1, kind, before + gap))
    /\ i' = i + 1
    /\ UNCHANGED <<pc, heap, file, transactions, validTransactions,
                   invalidTransactions, procRef, anomalies, summary, accountsOut>>

\* DetectAnomalies called on them.
DetectCall ==
    /\ pc = "stamped"
    /\ \E order \in MapOrders(WithdrawalAccounts(processedTransactions)) :
          anomalies' = ScanAnomalies(processedTransactions, processedAccounts)
                       \o RapidLoop(order, processedTransactions)
    /\ pc' = "detected"
    /\ UNCHANGED <<heap, file, transactions, validTransactions, invalidTransactions,
                   procRef, processedTransactions, i, summary, accountsOut>>

NextDetect ==
    \/ StampedRow
    \/ DetectCall

SpecDetect == InitDetect /\ [][NextDetect]_vars

\* ============================================================== properties
Min(a, b) == IF a < b THEN a ELSE b

\* ProcessTransactions' loop has run over every transaction.
LoopDone == procRef # "nil" /\ i > Len(processedTransactions)

\* The state right after one iteration of the loop: transaction i - 1 has just
\* been applied (or rejected) and nothing after it.
JustApplied == pc = "process" /\ i > 1
Last == processedTransactions[i - 1]

\* An iteration of the loop, as a step: Current is stamped into Stamped.
IsStep == pc = "process" /\ i <= Len(processedTransactions) /\ i' = i + 1
Current == processedTransactions[i]
Stamped == processedTransactions'[i]
Before(id) == Lookup(heap[procRef], id)
After(id) == Lookup(heap'[procRef'], id)

\* The amounts of the completed transactions of the types `types` that account
\* `acct` is the source of, among the first n transactions.
RECURSIVE PriorAmount(_, _, _)
PriorAmount(acct, n, types) ==
    IF n = 0 THEN 0
    ELSE PriorAmount(acct, n - 1, types)
         + (IF /\ processedTransactions[n].AccountID = acct
               /\ processedTransactions[n].Status = "completed"
               /\ processedTransactions[n].Type \in types
            THEN processedTransactions[n].Amount ELSE 0)

\* C1 as stated: after ProcessTransactions every account of the returned
\* mapping has balance >= the overdraft floor, untouched accounts included.
C1_EveryBalanceAboveFloor ==
    LoopDone =>
        \A id \in DOMAIN processedAccounts :
            processedAccounts[id].Balance >= OverdraftLimit

\* C1 amended: no account is taken below the floor: every balance stays >= the
\* lower of the floor and the balance the accounts file gave, and the source
\* of a completed debit or transfer is >= the floor right after it.
C1_NoAccountTakenBelowFloor ==
    /\ procRef # "nil" =>
          \A id \in DOMAIN processedAccounts :
              processedAccounts[id].Balance
                  >= Min(Lookup(accounts, id).Balance, OverdraftLimit)
    /\ (JustApplied /\ Last.Status = "completed" /\ Last.Type \in {"debit", "transfer"})
          => Lookup(processedAccounts, Last.AccountID).Balance >= OverdraftLimit

\* A completed debit or transfer left its source overdrawn within the floor,
\* and another one was rejected for the floor.
C1_Witness ==
    /\ LoopDone
    /\ \E k \in 1..Len(processedTransactions) :
          /\ processedTransactions[k].Status = "completed"
          /\ processedTransactions[k].Type \in {"debit", "transfer"}
          /\ processedAccounts[processedTransactions[k].AccountID].Balance < 0
    /\ \E k \in 1..Len(processedTransactions) :
          /\ processedTransactions[k].Status = "rejected"
          /\ processedTransactions[k].ProcessingMessage = MsgOverdraftLimit

\* C2: a transfer's step either completes it, taking exactly the amount from
\* the source and adding exactly the amount to the destination in that one
\* step, or rejects it and changes neither balance.
C2_TransferAtomic ==
    [][(IsStep /\ Current.Type = "transfer") =>
         LET s == Current.AccountID
             d == Current.DestinationAccountID
         IN  /\ Stamped.Status \in {"completed", "rejected"}
             /\ Stamped.Status = "completed" =>
                   /\ After(s).Balance = Before(s).Balance - Current.Amount
                   /\ After(d).Balance = Before(d).Balance + Current.Amount
             /\ Stamped.Status = "rejected" =>
                   /\ After(s).Balance = Before(s).Balance
                   /\ After(d).Balance = Before(d).Balance]_vars

\* One transfer was completed and another rejected.
C2_Witness ==
    /\ LoopDone
    /\ \E k \in 1..Len(processedTransactions) :
          /\ processedTransactions[k].Type = "transfer"
          /\ processedTransactions[k].Status = "completed"
    /\ \E k \in 1..Len(processedTransactions) :
          /\ processedTransactions[k].Type = "transfer"
          /\ processedTransactions[k].Status = "rejected"

\* The ledger engine run from `accts` over `txs`: the final accounts and the
\* stamped transactions.
RECURSIVE Replay(_, _)
Replay(txs, accts) ==
    IF txs = <<>> THEN [accounts |-> accts, txs |-> <<>>]
    ELSE LET r == ProcessOne(Head(txs), accts)
             rest == Replay(Tail(txs), r.accounts)
         IN  [accounts |-> rest.accounts, txs |-> <<r.tx>> \o rest.txs]

\* The subsequence of txs at the positions where `stamped` is not rejected.
RECURSIVE NotRejected(_, _)
NotRejected(txs, stamped) ==
    IF txs = <<>> THEN <<>>
    ELSE (IF Head(stamped).Status = "rejected" THEN <<>> ELSE <<Head(txs)>>)
         \o NotRejected(Tail(txs), Tail(stamped))

\* C3: the step that rejects a debit or transfer leaves every field of its
\* source and destination accounts as it was, and the run ends as the run
\* over the sequence without the rejected transactions ends.
C3_RejectionChangesNothing ==
    /\ [][(IsStep /\ Stamped.Status = "rejected") =>
            /\ After(Current.AccountID) = Before(Current.AccountID)
            /\ After(Current.DestinationAccountID) = Before(Current.DestinationAccountID)
            /\ heap'[procRef'] = heap[procRef]]_vars
    /\ [](LoopDone =>
            LET r == Replay(NotRejected(validTransactions, processedTransactions),
                            accounts)
            IN  /\ r.accounts = processedAccounts
                /\ r.txs = NotRejected(processedTransactions, processedTransactions))

\* A rejected transaction on an account that had completed one before, and a
\* transaction of the same account completed after a rejected one.
C3_Witness ==
    /\ LoopDone
    /\ \E k \in 1..Len(processedTransactions) :
          /\ processedTransactions[k].Status = "rejected"
          /\ \E j \in 1..Len(processedTransactions) :
                /\ j # k
                /\ processedTransactions[j].Status = "completed"
                /\ processedTransactions[j].AccountID = processedTransactions[k].AccountID

\* C4 as stated: right after a completed debit or transfer the source's daily
\* debit total is within the daily withdrawal limit.
C4_DebitOrTransferWithinDailyLimit ==
    (JustApplied /\ Last.Status = "completed" /\ Last.Type \in {"debit", "transfer"})
        => processedAccounts[Last.AccountID].DailyDebits <= MaxDailyWithdrawalLimit

\* C4 amended: right after a completed debit the source's daily debit total is
\* within the daily withdrawal limit (a completed transfer is not held to it).
C4_DebitWithinDailyLimit ==
    (JustApplied /\ Last.Status = "completed" /\ Last.Type = "debit")
        => processedAccounts[Last.AccountID].DailyDebits <= MaxDailyWithdrawalLimit

\* A debit completed on an account that had already sent money out that day.
C4_Witness ==
    /\ JustApplied
    /\ Last.Status = "completed"
    /\ Last.Type = "debit"
    /\ processedAccounts[Last.AccountID].DailyDebits > Last.Amount

\* C5 as stated: a debit is rejected for the daily limit exactly when the
\* account's earlier completed debits plus its amount exceed the limit
\* (completed transfers not counted).
C5_LimitCountsDebitsOnly ==
    (JustApplied /\ Last.Type = "debit") =>
        ((Last.Status = "rejected" /\ Last.ProcessingMessage = MsgDailyLimit)
           <=> PriorAmount(Last.AccountID, i - 2, {"debit"}) + Last.Amount
                   > MaxDailyWithdrawalLimit)

\* C5 amended: a debit is rejected for the daily limit exactly when the
\* account's earlier completed debits and outgoing transfers plus its amount
\* exceed the limit; a transfer is never rejected for the daily limit.
C5_LimitCountsDebitsAndTransfers ==
    /\ (JustApplied /\ Last.Type = "debit") =>
          ((Last.Status = "rejected" /\ Last.ProcessingMessage = MsgDailyLimit)
             <=> PriorAmount(Last.AccountID, i - 2, {"debit", "transfer"}) + Last.Amount
                     > MaxDailyWithdrawalLimit)
    /\ (JustApplied /\ Last.Type = "transfer") => Last.ProcessingMessage # MsgDailyLimit

\* A debit within the limit on its own is rejected for the daily limit after
\* a completed transfer out of the same account.
C5_Witness ==
    /\ JustApplied
    /\ Last.Type = "debit"
    /\ Last.Status = "rejected"
    /\ Last.ProcessingMessage = MsgDailyLimit
    /\ Last.Amount <= MaxDailyWithdrawalLimit
    /\ PriorAmount(Last.AccountID, i - 2, {"transfer"}) > 0

\* The fields of a transaction other than its stamp (status and outcome message).
Unstamped(transaction) ==
    [transaction EXCEPT !.Status = "", !.ProcessingMessage = ""]

\* C6: the transactions and the accounts change only in an iteration of the
\* loop, which takes a pending transaction and stamps it completed or
\* rejected, once; the returned sequence is the input in length and order,
\* with nothing left pending.
C6_PendingStampedOnce ==
    /\ [][(procRef # "nil"
             /\ (processedTransactions' # processedTransactions \/ heap' # heap)) =>
            /\ IsStep
            /\ Current.Status = "pending"
            /\ Stamped.Status \in {"completed", "rejected"}
            /\ Unstamped(Stamped) = Unstamped(Current)
            /\ Len(processedTransactions') = Len(processedTransactions)
            /\ \A k \in 1..Len(processedTransactions) :
                  k # i => processedTransactions'[k] = processedTransactions[k]]_vars
    /\ [](procRef # "nil" =>
            /\ Len(processedTransactions) = Len(validTransactions)
            /\ \A k \in 1..Len(processedTransactions) :
                  /\ Unstamped(processedTransactions[k]) = Unstamped(validTransactions[k])
                  /\ validTransactions[k].Status = "pending"
                  /\ k < i => processedTransactions[k].Status \in {"completed", "rejected"}
                  /\ k >= i => processedTransactions[k] = validTransactions[k])

\* Two transactions were presented; one ended completed and the other rejected.
C6_Witness ==
    /\ LoopDone
    /\ Len(processedTransactions) = 2
    /\ {processedTransactions[1].Status, processedTransactions[2].Status}
          = {"completed", "rejected"}

\* C7: no step changes the caller's account mapping, in keys or in values.
C7_CallerMapUntouched == [][heap'["accounts"] = heap["accounts"]]_vars

\* The returned mapping differs from the caller's in both accounts.
C7_Witness ==
    /\ LoopDone
    /\ \A id \in DOMAIN accounts : processedAccounts[id] # accounts[id]

\* A row parseTransaction cannot turn into a Transaction.
Malformed(row) ==
    \/ row.Type \notin {"credit", "debit", "transfer"}
    \/ row.Status \notin {"pending", "completed", "rejected"}

\* A row that names an account the accounts file does not hold.
RefersUnknown(row) ==
    \/ row.AccountID \notin AccountIDs
    \/ row.Type = "transfer" /\ row.Dest # "" /\ row.Dest \notin AccountIDs

\* C8 as stated: a malformed row or a reference to an unknown account in the
\* day's input means that no transaction is applied and no account state is
\* written.
C8_StructuralErrorAbortsRun ==
    (\E k \in 1..Len(file) : Malformed(file[k]) \/ RefersUnknown(file[k])) =>
        /\ \A k \in 1..Len(processedTransactions) :
              processedTransactions[k].Status # "completed"
        /\ ~accountsOut.written

\* C8 amended: a row that does not parse aborts the run before anything is
\* validated, applied or written; a transaction that refers to an unknown
\* account does not: it goes to the invalid transactions with a message and
\* never reaches the ledger engine, and the run goes on to apply the valid
\* transactions and write the accounts.
C8_MalformedAbortsUnknownIsSetAside ==
    /\ (pc # "input" /\ \E k \in 1..Len(file) : Malformed(file[k])) => pc = "aborted"
    /\ pc = "aborted" =>
          /\ procRef = "nil"
          /\ validTransactions = <<>>
          /\ processedTransactions = <<>>
          /\ ~accountsOut.written
    /\ pc \notin {"input", "aborted", "validate"} =>
          \A k \in 1..Len(file) :
              RefersUnknown(file[k]) =>
                  /\ \E j \in 1..Len(invalidTransactions) :
                        /\ invalidTransactions[j].ID = k
                        /\ invalidTransactions[j].ValidationMessage # ""
                  /\ \A j \in 1..Len(validTransactions) : validTransactions[j].ID # k
                  /\ \A j \in 1..Len(processedTransactions) :
                        processedTransactions[j].ID # k
    /\ procRef # "nil" => DOMAIN processedAccounts = AccountIDs
    /\ pc = "done" =>
          /\ LoopDone
          /\ Len(processedTransactions) = Len(validTransactions)
          /\ accountsOut = WriteAccounts(processedAccounts)

\* The day's input names an unknown account, and the run has applied another
\* transaction of it and written the accounts it changed.
C8_Witness ==
    /\ pc = "done"
    /\ \E k \in 1..Len(file) : RefersUnknown(file[k])
    /\ \E k \in 1..Len(processedTransactions) :
          processedTransactions[k].Status = "completed"
    /\ accountsOut.written
    /\ accountsOut # WriteAccounts(accounts)

\* How many transactions of txs carry the id `id`.
CountID(txs, id) == Cardinality({j \in 1..Len(txs) : txs[j].ID = id})

\* C9: what ValidateTransactions returns as valid is pending, of positive
\* amount, from an existing account and, for a transfer, to an existing other
\* account; every input transaction is in exactly one of the two outputs, as
\* it was read (an invalid one with its message added), in the input's order.
C9_ValidAreWellFormedAndPartition ==
    pc \notin {"input", "aborted", "validate"} =>
        /\ \A j \in 1..Len(validTransactions) :
              LET t == validTransactions[j]
              IN  /\ t.Status = "pending"
                  /\ t.Amount > 0
                  /\ t.AccountID \in DOMAIN accounts
                  /\ t.Type = "transfer" =>
                        /\ t.DestinationAccountID # ""
                        /\ t.DestinationAccountID \in DOMAIN accounts
                        /\ t.DestinationAccountID # t.AccountID
                  /\ t = transactions[t.ID]
        /\ \A j \in 1..Len(invalidTransactions) :
              LET t == invalidTransactions[j]
              IN  /\ t.ValidationMessage # ""
                  /\ [t EXCEPT !.ValidationMessage = ""] = transactions[t.ID]
        /\ Len(validTransactions) + Len(invalidTransactions) = Len(transactions)
        /\ \A k \in 1..Len(transactions) :
              CountID(validTransactions, k) + CountID(invalidTransactions, k) = 1
        /\ \A j1, j2 \in 1..Len(validTransactions) :
              j1 < j2 => validTransactions[j1].ID < validTransactions[j2].ID
        /\ \A j1, j2 \in 1..Len(invalidTransactions) :
              j1 < j2 => invalidTransactions[j1].ID < invalidTransactions[j2].ID

\* A transfer was found valid and a transfer to its own source invalid.
C9_Witness ==
    /\ pc = "call"
    /\ \E j \in 1..Len(validTransactions) : validTransactions[j].Type = "transfer"
    /\ \E j \in 1..Len(invalidTransactions) :
          invalidTransactions[j].ValidationMessage = MsgSameAccount

\* The large_transaction anomalies that name the transaction `id`.
LargeAnomaliesOf(id) ==
    {j \in 1..Len(anomalies) :
        anomalies[j].Type = "large_transaction" /\ anomalies[j].TransactionID = id}

Detected == pc \in {"report", "done", "detected"}

\* The account_overdraft anomalies that name the transaction `id`.
OverdraftAnomaliesOf(id) ==
    {j \in 1..Len(anomalies) :
        anomalies[j].Type = "account_overdraft" /\ anomalies[j].TransactionID = id}

\* The account_overdraft anomalies that name the account `id`.
OverdraftAnomaliesFor(id) ==
    {j \in 1..Len(anomalies) :
        anomalies[j].Type = "account_overdraft" /\ anomalies[j].AccountID = id}

\* The completed transactions the account `id` is the source or the
\* destination of.
Involving(id) ==
    {k \in 1..Len(processedTransactions) :
        /\ processedTransactions[k].Status = "completed"
        /\ \/ processedTransactions[k].AccountID = id
           \/ /\ processedTransactions[k].Type = "transfer"
              /\ processedTransactions[k].DestinationAccountID = id}

\* The severity of an overdraft of final balance b: low down to half the
\* floor, medium down to 0.8 times the floor, high below that.
SeverityOfBalance(b) ==
    IF b < (OverdraftLimit * 4) \div 5 THEN "high"
    ELSE IF b < OverdraftLimit \div 2 THEN "medium"
    ELSE "low"

\* C11 as stated: an account whose final balance is negative has one
\* account_overdraft anomaly per completed transaction it was involved in, as
\* source or as destination, and an account whose final balance is >= 0 has
\* none.
C11_OneOverdraftAnomalyPerInvolvement ==
    Detected =>
        \A id \in DOMAIN processedAccounts :
            Cardinality(OverdraftAnomaliesFor(id)) =
                IF processedAccounts[id].Balance < 0
                THEN Cardinality(Involving(id)) ELSE 0

\* C11: DetectAnomalies gives one account_overdraft anomaly to each completed
\* transaction whose source account has a negative final balance, and none to
\* any other transaction (rejected, or with a source whose final balance is
\* >= 0); the anomaly names the source account, and its severity depends
\* only on that final balance: low from 0 down to half the floor, medium from
\* there down to 0.8 times the floor, high below.
C11_OneOverdraftAnomalyPerSourceTransaction ==
    Detected =>
        /\ \A k \in 1..Len(processedTransactions) :
              LET t == processedTransactions[k]
              IN  Cardinality(OverdraftAnomaliesOf(t.ID)) =
                      IF /\ t.Status = "completed"
                         /\ Lookup(processedAccounts, t.AccountID).Balance < 0
                      THEN 1 ELSE 0
        /\ \A j \in 1..Len(anomalies) :
              anomalies[j].Type = "account_overdraft" =>
                  /\ anomalies[j].Severity =
                        SeverityOfBalance(
                            Lookup(processedAccounts, anomalies[j].AccountID).Balance)
                  /\ \E k \in 1..Len(processedTransactions) :
                        /\ processedTransactions[k].ID = anomalies[j].TransactionID
                        /\ processedTransactions[k].AccountID = anomalies[j].AccountID
                        /\ processedTransactions[k].Timestamp = anomalies[j].Timestamp

\* A completed transfer out of an account that ends at 0.8 times the floor has
\* its anomaly, of severity medium; the overdrawn destination is named by no
\* anomaly, and a rejected debit of the source has none.
C11_Witness ==
    /\ pc = "detected"
    /\ processedAccounts["A1"].Balance * 10 = OverdraftLimit * 8
    /\ processedAccounts["A2"].Balance < 0
    /\ \E k \in 1..Len(processedTransactions) :
          /\ processedTransactions[k].Type = "transfer"
          /\ processedTransactions[k].AccountID = "A1"
          /\ processedTransactions[k].DestinationAccountID = "A2"
          /\ \E j \in OverdraftAnomaliesOf(processedTransactions[k].ID) :
                anomalies[j].Severity = "medium"
    /\ \E k \in 1..Len(processedTransactions) :
          /\ processedTransactions[k].Status = "rejected"
          /\ OverdraftAnomaliesOf(processedTransactions[k].ID) = {}
    /\ OverdraftAnomaliesFor("A2") = {}

\* The completed debits of the account `id`, in input order.
CompletedDebitsOf(id) ==
    LET IsDebit(t) == t.Status = "completed" /\ t.Type = "debit" /\ t.AccountID = id
    IN  SelectSeq(processedTransactions, IsDebit)

\* The windows of RapidWithdrawalThreshold consecutive withdrawals of w, each
\* named by the position of its last withdrawal, whose first-to-last span is
\* within the time window.
QualifyingWindows(w) ==
    {n \in RapidWithdrawalThreshold..Len(w) :
        w[n].Timestamp - w[n - RapidWithdrawalThreshold + 1].Timestamp
            <= RapidWithdrawalTimeWindowMins}

\* The rapid_withdrawals anomalies that name the account `id`.
RapidAnomaliesFor(id) ==
    {j \in 1..Len(anomalies) :
        anomalies[j].Type = "rapid_withdrawals" /\ anomalies[j].AccountID = id}

\* The input is in chronological order.
Chronological ==
    \A k \in 2..Len(processedTransactions) :
        processedTransactions[k - 1].Timestamp <= processedTransactions[k].Timestamp

OverDailyLimit(account, transaction) ==
    account.DailyDebits + transaction.Amount > MaxDailyWithdrawalLimit
UnderFloor(account, transaction) ==
    account.Balance - transaction.Amount < OverdraftLimit

\* C13: a debit that fails the daily-limit check is rejected with the daily
\* limit message, also when it fails the overdraft-floor check too; one that
\* passes the daily-limit check and fails the floor check is rejected with
\* the overdraft limit message; a debit is completed exactly when it passes
\* both checks.
C13_DailyLimitCheckedBeforeFloor ==
    [][(IsStep /\ Current.Type = "debit") =>
          LET account == Before(Current.AccountID)
          IN  /\ OverDailyLimit(account, Current) =>
                    /\ Stamped.Status = "rejected"
                    /\ Stamped.ProcessingMessage = MsgDailyLimit
              /\ (~OverDailyLimit(account, Current) /\ UnderFloor(account, Current)) =>
                    /\ Stamped.Status = "rejected"
                    /\ Stamped.ProcessingMessage = MsgOverdraftLimit
              /\ Stamped.Status = "completed" <=>
                    (~OverDailyLimit(account, Current) /\ ~UnderFloor(account, Current))
              /\ Stamped.Status \in {"completed", "rejected"}]_vars

\* A debit that fails both checks has just been rejected for the daily limit
\* (a rejected debit leaves its account as it was before).
C13_Witness ==
    /\ JustApplied
    /\ Last.Type = "debit"
    /\ Last.Status = "rejected"
    /\ Last.ProcessingMessage = MsgDailyLimit
    /\ OverDailyLimit(Lookup(processedAccounts, Last.AccountID), Last)
    /\ UnderFloor(Lookup(processedAccounts, Last.AccountID), Last)

\* The step has completed a debit or an outgoing transfer of the account `id`
\* that leaves it with a negative balance.
OverdrawnBy(id) ==
    /\ Stamped.Status = "completed"
    /\ Current.Type \in {"debit", "transfer"}
    /\ Current.AccountID = id
    /\ After(id).Balance < 0

\* C14: each completed debit or outgoing transfer that leaves its source with
\* a negative balance raises the source's overdraft counter by exactly one
\* and carries the overdraft message while being completed; every other
\* transaction (credit, rejected, leaving the balance >= 0) and every other
\* account (the destination of a transfer included) keeps the counter as it
\* was, so the counter never decreases.
C14_OverdraftCountedOncePerOverdrawingTransaction ==
    [][IsStep =>
          /\ \A id \in DOMAIN heap'[procRef'] :
                /\ After(id).OverdraftCount =
                      Before(id).OverdraftCount + (IF OverdrawnBy(id) THEN 1 ELSE 0)
                /\ After(id).OverdraftCount >= Before(id).OverdraftCount
          /\ OverdrawnBy(Current.AccountID) =>
                Stamped.ProcessingMessage =
                    IF Current.Type = "debit" THEN MsgDebitOverdraft
                    ELSE MsgTransferOverdraft
          /\ Stamped.ProcessingMessage \in {MsgDebitOverdraft, MsgTransferOverdraft}
                => OverdrawnBy(Current.AccountID)]_vars

\* An account has been overdrawn further by a second transaction, a transfer:
\* its counter is two above the accounts file's, and the overdrawn destination
\* of the transfer has the counter of the accounts file.
C14_Witness ==
    /\ JustApplied
    /\ Last.Type = "transfer"
    /\ Last.Status = "completed"
    /\ Last.ProcessingMessage = MsgTransferOverdraft
    /\ Lookup(processedAccounts, Last.AccountID).OverdraftCount =
          Lookup(accounts, Last.AccountID).OverdraftCount + 2
    /\ Lookup(processedAccounts, Last.DestinationAccountID).Balance < 0
    /\ Lookup(processedAccounts, Last.DestinationAccountID).OverdraftCount =
          Lookup(accounts, Last.DestinationAccountID).OverdraftCount

\* The timestamp of the last completed transaction, among the first n, that
\* the account `id` is the source of; the accounts file's where there is none.
RECURSIVE LastCompletedTime(_, _)
LastCompletedTime(id, n) ==
    IF n = 0 THEN Lookup(accounts, id).LastTransactionTime
    ELSE IF /\ processedTransactions[n].AccountID = id
            /\ processedTransactions[n].Status = "completed"
         THEN processedTransactions[n].Timestamp
         ELSE LastCompletedTime(id, n - 1)

\* C15: a transaction stamped completed sets its source account's
\* last-transaction timestamp to its own timestamp and leaves every other
\* account's (a transfer's destination included) as it was; a rejected one
\* leaves every account's as it was; so after the run an account's timestamp
\* is that of the last completed transaction it was the source of.
C15_LastTransactionTimeOfSourceOnly ==
    /\ [][IsStep =>
            /\ Stamped.Status = "completed" =>
                  After(Current.AccountID).LastTransactionTime = Current.Timestamp
            /\ \A id \in DOMAIN heap'[procRef'] :
                  (Stamped.Status # "completed" \/ id # Current.AccountID) =>
                      After(id).LastTransactionTime = Before(id).LastTransactionTime]_vars
    /\ [](LoopDone =>
            \A id \in DOMAIN processedAccounts :
                processedAccounts[id].LastTransactionTime =
                    LastCompletedTime(id, Len(processedTransactions)))

\* After a completed transfer and a rejected transaction of the same source,
\* the source has the transfer's timestamp and the destination has not.
C15_Witness ==
    /\ LoopDone
    /\ \E k \in 1..Len(processedTransactions) :
          LET t == processedTransactions[k]
          IN  /\ t.Type = "transfer"
              /\ t.Status = "completed"
              /\ processedAccounts[t.AccountID].LastTransactionTime = t.Timestamp
              /\ processedAccounts[t.DestinationAccountID].LastTransactionTime
                    # t.Timestamp
              /\ \E j \in (k + 1)..Len(processedTransactions) :
                    /\ processedTransactions[j].AccountID = t.AccountID
                    /\ processedTransactions[j].Status = "rejected"

\* C16: for every account, the opening balance of the daily summary is the
\* balance the account had before ProcessTransactions ran, and the summary's
\* total debits and total credits are the account's daily debit and daily
\* credit counters after the run.
C16_SummaryRoundTrip ==
    pc = "done" =>
        /\ DOMAIN summary = DOMAIN processedAccounts
        /\ \A id \in DOMAIN processedAccounts :
              /\ summary[id].OpeningBalance = Lookup(accounts, id).Balance
              /\ summary[id].TotalDebits = processedAccounts[id].DailyDebits
              /\ summary[id].TotalCredits = processedAccounts[id].DailyCredits

\* A run with a completed transfer and a rejected transaction: source and
\* destination both close at another balance than they opened at.
C16_Witness ==
    /\ pc = "done"
    /\ \E k \in 1..Len(processedTransactions) :
          LET t == processedTransactions[k]
          IN  /\ t.Type = "transfer"
              /\ t.Status = "completed"
              /\ summary[t.AccountID].TotalDebits >= t.Amount
              /\ summary[t.DestinationAccountID].TotalCredits >= t.Amount
              /\ summary[t.AccountID].OpeningBalance
                    # summary[t.AccountID].ClosingBalance
              /\ summary[t.DestinationAccountID].OpeningBalance
                    # summary[t.DestinationAccountID].ClosingBalance
    /\ \E k \in 1..Len(processedTransactions) :
          processedTransactions[k].Status = "rejected"

====
